---- MODULE Spec2Model ----
(***************************************************************************)
(* godns: the xfrprx notify/transfer proxy, the funkensturm filtering      *)
(* proxy, the test responder of server_test.go and the resolver            *)
(* configuration reader.  One run of the model is one run of one of these  *)
(* programs (variable prog).                                               *)
(***************************************************************************)
EXTENDS Integers, Sequences, FiniteSets, TLC

\* ---------------------------------------------------------------- bounds
\* inbound messages the listeners of one run accept
MaxInbound == 2
\* match functions and actions of a funkensturm configuration
MaxMatches == 2
MaxActions == 2
\* lines of a resolver configuration file
MaxLines == 4

\* --------------------------------------------------------- program facts
\* a capacity check that lets one record too many through
ZoneCapOffByOne == 10000 + 1

\* capacity of zone.rrs, a [10000]dns.RR
ZoneCap == 10000

ZoneName == "example.com."

Programs == {"xfrprx", "funkensturm", "test", "resolver"}

\* the four listen goroutines and the two query goroutines of xfrprx main
Listeners == {"tcp4", "tcp6", "udp4", "udp6"}
QueryTasks == {"qtcp", "qudp"}
Tasks == Listeners \cup QueryTasks

VARIABLES
    prog,      \* the program this run executes
    Zone,      \* xfrprx: the global zone store
    verified,  \* xfrprx: the records now in Zone passed verification
    pc,        \* xfrprx: position of every goroutine started by main
    msg,       \* xfrprx: the message a listener's handler works on (a
               \* dropped message stays here until the next one arrives)
    xfer,      \* xfrprx: the transfer a handler is running (scratch buffer)
    result,    \* xfrprx: what the handler printed / did for its message
    accepted,  \* inbound messages accepted so far
    mainpc,    \* main: "forever" inside the loop, "closed" after it
    stopmsg,   \* main: the stop message printed when leaving the loop
    f,         \* funkensturm: the configuration (Matches, Actions)
    qr,        \* funkensturm: number of remote server connections
    fpc,       \* funkensturm: position of the udp and tcp goroutines
    fmsg,      \* funkensturm: the packet reply was called with
    fres,      \* funkensturm: what reply did for its last packet
    tpc,       \* test handler: "idle", or "handle" inside the handler
    tin,       \* test handler: the message it was called with
    tout,      \* test handler: the messages written to the connection
    res,       \* resolver: the Resolver FromFile is called on
    conf,      \* resolver: the lines of the file read so far
    rpc        \* resolver: position inside FromFile

xvars == <<Zone, verified, pc, msg, xfer, result>>
fvars == <<f, qr, fpc, fmsg, fres>>
tvars == <<tpc, tin, tout>>
rvars == <<res, conf, rpc>>

vars == <<prog, xvars, accepted, mainpc, stopmsg, fvars, tvars, rvars>>

\* what a step of each program leaves alone
NotX == <<prog, fvars, tvars, rvars>>
NotF == <<prog, xvars, tvars, rvars>>
NotT == <<prog, xvars, fvars, rvars>>
NotR == <<prog, xvars, fvars, tvars>>

None == "none"

\* no message in hand, no transfer running
NoMsg == [Response |-> FALSE, kind |-> None, serial |-> 0]
NoXfer == [serial |-> 0, n |-> 0]

\* the serials that NOTIFY messages announce; the zone store starts empty,
\* at serial 0
Serials == {3, 5}

\* Inbound DNS messages: the response bit, what the message asks for, and
\* the serial a NOTIFY announces.
InMsgs ==
    { m \in [Response : BOOLEAN, kind : {"NOTIFY", "AXFR", "QUERY"},
             serial : Serials \cup {0}] :
        (m.kind = "NOTIFY") <=> (m.serial > 0) }

\* sizes of the record batches one message of a transfer stream carries:
\* two batches fill the buffer or overflow it
ChunkSizes == {ZoneCap \div 2, ZoneCap \div 2 + 1}

\* The zero value of the global: var Zone zone
ZoneInitCorrect ==
    [name |-> "", rrs |-> [serial |-> 0, n |-> 0], size |-> 0,
     correct |-> TRUE]

ZoneInit ==
    [name |-> "", rrs |-> [serial |-> 0, n |-> 0], size |-> 0,
     correct |-> FALSE]

XInit ==
    /\ Zone = ZoneInit
    /\ verified = FALSE
    /\ pc = [t \in Tasks |-> IF t \in Listeners THEN "idle" ELSE "serve"]
    /\ msg = [t \in Listeners |-> NoMsg]
    /\ xfer = [t \in Listeners |-> NoXfer]
    /\ result = [t \in Listeners |-> None]

\* the process lives while main is in its loop
Alive(p) == prog = p /\ mainpc = "forever"

\* ---------------------------------------------------------------- xfrprx

\* dns.ListenAndServeTCP/UDP(addr, handle): the listener decoded a message
\* and calls handle with it.
listenServe(t, m) ==
    /\ Alive("xfrprx")
    /\ pc[t] = "idle"
    /\ accepted < MaxInbound
    /\ accepted' = accepted + 1
    /\ pc' = [pc EXCEPT ![t] = "handle"]
    /\ msg' = [msg EXCEPT ![t] = m]
    /\ UNCHANGED <<NotX, Zone, verified, xfer, result, mainpc, stopmsg>>

\* handle, lines 32-34 without the test of the response bit
handleNoGuard(t) ==
    /\ Alive("xfrprx")
    /\ pc[t] = "handle"
    /\ pc' = [pc EXCEPT ![t] = "notify"]
    /\ UNCHANGED <<NotX, Zone, verified, msg, xfer, result, accepted,
                   mainpc, stopmsg>>

\* handle, lines 32-34: a message with the response bit set is dropped
handle(t) ==
    /\ Alive("xfrprx")
    /\ pc[t] = "handle"
    /\ IF msg[t].Response = TRUE
         THEN pc' = [pc EXCEPT ![t] = "idle"]
         ELSE pc' = [pc EXCEPT ![t] = "notify"]
    /\ UNCHANGED <<NotX, Zone, verified, msg, xfer, result, accepted,
                   mainpc, stopmsg>>

\* a transfer of the zone is in progress in some handler
InProgressNever == FALSE

InProgress == \E u \in Listeners : xfer[u] # NoXfer

\* handleNotify (Transfer Engine, Idle -> NotifyReceived -> TransferRequested):
\* not a NOTIFY: nothing to do; serial not newer: acknowledged, no transfer;
\* a transfer already in progress: coalesced; otherwise the TCP connection is
\* opened (it may fail) and the transfer query is sent.
handleNotify(t) ==
    /\ Alive("xfrprx")
    /\ pc[t] = "notify"
    /\ \/ /\ msg[t].kind # "NOTIFY"
          /\ pc' = [pc EXCEPT ![t] = "xfrout"]
          /\ UNCHANGED <<xfer, result>>
       \/ /\ msg[t].kind = "NOTIFY"
          /\ msg[t].serial <= Zone.rrs.serial
          /\ pc' = [pc EXCEPT ![t] = "xfrout"]
          /\ UNCHANGED <<xfer, result>>
       \/ /\ msg[t].kind = "NOTIFY"
          /\ msg[t].serial > Zone.rrs.serial
          /\ InProgress
          /\ pc' = [pc EXCEPT ![t] = "xfrout"]
          /\ UNCHANGED <<xfer, result>>
       \/ /\ msg[t].kind = "NOTIFY"
          /\ msg[t].serial > Zone.rrs.serial
          /\ ~InProgress
          /\ \/ /\ xfer' = [xfer EXCEPT ![t] =
                        [serial |-> msg[t].serial, n |-> 0]]
                /\ pc' = [pc EXCEPT ![t] = "streaming"]
                /\ UNCHANGED result
             \/ /\ pc' = [pc EXCEPT ![t] = "xfrout"]
                /\ result' = [result EXCEPT ![t] = "connect"]
                /\ UNCHANGED xfer
    /\ UNCHANGED <<NotX, Zone, verified, msg, accepted, mainpc, stopmsg>>

\* the scratch buffer has room for c more records
Fits(n, c) == n + c <= ZoneCap

\* the transfer of handler t is aborted with error e; handleNotify returns
\* it and handle prints it (line 36)
Abort(t, e) ==
    /\ xfer' = [xfer EXCEPT ![t] = NoXfer]
    /\ result' = [result EXCEPT ![t] = e]
    /\ pc' = [pc EXCEPT ![t] = "xfrout"]
    /\ UNCHANGED <<Zone, verified>>

\* Streaming: one more message of the stream arrives; its records go to the
\* scratch buffer, or the transfer is aborted because they do not fit
streamChunk(t, c) ==
    /\ Alive("xfrprx")
    /\ pc[t] = "streaming"
    /\ IF Fits(xfer[t].n, c)
         THEN /\ xfer' = [xfer EXCEPT ![t].n = @ + c]
              /\ UNCHANGED <<Zone, verified, pc, result>>
         ELSE Abort(t, "overflow")
    /\ UNCHANGED <<NotX, msg, accepted, mainpc, stopmsg>>

\* Streaming: the connection drops before the terminating SOA
streamDrop(t) ==
    /\ Alive("xfrprx")
    /\ pc[t] = "streaming"
    /\ Abort(t, "drop")
    /\ UNCHANGED <<NotX, msg, accepted, mainpc, stopmsg>>

\* Streaming -> Verifying: the terminating SOA of the new serial is seen
streamEnd(t) ==
    /\ Alive("xfrprx")
    /\ pc[t] = "streaming"
    /\ xfer[t].n > 0
    /\ pc' = [pc EXCEPT ![t] = "verifying"]
    /\ UNCHANGED <<NotX, Zone, verified, msg, xfer, result, accepted,
                   mainpc, stopmsg>>

\* Verifying -> Committed | Aborted: only a verified scratch buffer replaces
\* the zone store, in one step, and the zone is then marked correct
verify(t, ok) ==
    /\ Alive("xfrprx")
    /\ pc[t] = "verifying"
    /\ IF ok
         THEN /\ Zone' = [name |-> ZoneName,
                          rrs |-> [serial |-> xfer[t].serial, n |-> xfer[t].n],
                          size |-> xfer[t].n,
                          correct |-> TRUE]
              /\ verified' = TRUE
              /\ xfer' = [xfer EXCEPT ![t] = NoXfer]
              /\ result' = [result EXCEPT ![t] = "committed"]
              /\ pc' = [pc EXCEPT ![t] = "xfrout"]
         ELSE Abort(t, "verify")
    /\ UNCHANGED <<NotX, msg, accepted, mainpc, stopmsg>>

\* handleXfrOut: a transfer request for the zone held is answered by
\* streaming the zone back; the stream may fail, and handle prints the
\* error (line 40).  Any other message is not for this function.
handleXfrOut(t) ==
    /\ Alive("xfrprx")
    /\ pc[t] = "xfrout"
    /\ pc' = [pc EXCEPT ![t] = "tail"]
    /\ IF msg[t].kind = "AXFR" /\ Zone.name = ZoneName
         THEN \/ UNCHANGED result
              \/ result' = [result EXCEPT ![t] = "xfrout"]
         ELSE UNCHANGED result
    /\ msg' = [msg EXCEPT ![t] = NoMsg]
    /\ UNCHANGED <<NotX, Zone, verified, xfer, accepted, mainpc, stopmsg>>

\* handle, lines 42-45, and the return to the listener
handleTail(t) ==
    /\ Alive("xfrprx")
    /\ pc[t] = "tail"
    /\ Zone' = IF Zone.name # "" THEN [Zone EXCEPT !.correct = FALSE] ELSE Zone
    /\ pc' = [pc EXCEPT ![t] = "idle"]
    /\ result' = [result EXCEPT ![t] = None]
    /\ UNCHANGED <<NotX, verified, msg, xfer, accepted, mainpc, stopmsg>>

\* main returned: the process ends and its goroutines with it; t0, if any,
\* is the goroutine whose serve call returned and whose error main received
exit(t0) ==
    /\ mainpc' = "closed"
    /\ pc' = [t \in Tasks |-> IF t = t0 THEN "returned" ELSE "exited"]
    /\ msg' = [t \in Listeners |-> NoMsg]
    /\ xfer' = [t \in Listeners |-> NoXfer]
    /\ UNCHANGED <<NotX, Zone, verified, accepted, result>>

\* main, lines 87-89 and 97: an error arrives from goroutine t
mainError(t) ==
    /\ stopmsg' = "Error received, stopping"
    /\ exit(t)

\* listen, lines 51-52 and 54-55: the serve call returned and its error is
\* sent on the unbuffered channel e, where main, waiting in its select,
\* receives it
listen(t) ==
    /\ Alive("xfrprx")
    /\ t \in Listeners
    /\ pc[t] = "idle"
    /\ mainError(t)

\* query, lines 62-63 and 65-66: the same for the outbound query goroutines
query(t) ==
    /\ Alive("xfrprx")
    /\ t \in QueryTasks
    /\ pc[t] = "serve"
    /\ mainError(t)

\* main, lines 93-94 with a break out of the loop
mainQueryReplyBreak(t) ==
    /\ Alive("xfrprx")
    /\ t \in QueryTasks
    /\ pc[t] = "serve"
    /\ stopmsg' = stopmsg
    /\ exit(None)

\* main, lines 93-94: query goroutine t finished an outbound exchange and
\* sends its reply on dns.QueryReply; main prints it and the loop goes on
mainQueryReply(t) ==
    /\ Alive("xfrprx")
    /\ t \in QueryTasks
    /\ pc[t] = "serve"
    /\ UNCHANGED vars

\* main, lines 90-92 and 97: a signal arrives
mainSignal ==
    /\ Alive("xfrprx")
    /\ stopmsg' = "Signal received, stopping"
    /\ exit(None)

XNext ==
    \/ \E t \in Listeners, m \in InMsgs : listenServe(t, m)
    \/ \E t \in Listeners : handle(t)
    \/ \E t \in Listeners : handleNotify(t)
    \/ \E t \in Listeners, c \in ChunkSizes : streamChunk(t, c)
    \/ \E t \in Listeners : streamDrop(t)
    \/ \E t \in Listeners : streamEnd(t)
    \/ \E t \in Listeners, ok \in BOOLEAN : verify(t, ok)
    \/ \E t \in Listeners : handleXfrOut(t)
    \/ \E t \in Listeners : handleTail(t)
    \/ \E t \in Listeners : listen(t)
    \/ \E t \in QueryTasks : query(t)
    \/ \E t \in QueryTasks : mainQueryReply(t)
    \/ mainSignal

\* ----------------------------------------------------------- funkensturm

\* the udp and tcp goroutines of funkensturm main
FTasks == {"udp", "tcp"}

\* the iota constants: packet direction and match operator
PktIN == 0
PktOUT == 1
OR == 2
AND == 3

\* Functions a configuration may put in Match.Func and Action.Func: match
\* and send are those of config.go; markT and markF are match functions
\* that change the packet and answer true and false; answer and drop are
\* actions that return a packet and nil.
MatchFuncs == {"match", "markT", "markF"}
ActionFuncs == {"send", "answer", "drop"}

\* a *dns.Msg: nil, or a message with its response bit and the changes
\* made to it on the way
NilPkt == [nil |-> TRUE, Response |-> FALSE, path |-> <<>>]
Pkt(resp) == [nil |-> FALSE, Response |-> resp, path |-> <<>>]

Mark(m, tag) == IF m.nil THEN m ELSE [m EXCEPT !.path = Append(@, tag)]

RECURSIVE SeqsUpTo(_, _)
SeqsUpTo(S, n) ==
    IF n = 0 THEN {<<>>}
    ELSE LET shorter == SeqsUpTo(S, n - 1)
         IN  shorter \cup {Append(q, x) : q \in shorter, x \in S}

Configs ==
    [Matches : SeqsUpTo([Op : {AND, OR}, Func : MatchFuncs], MaxMatches),
     Actions : SeqsUpTo(ActionFuncs, MaxActions)]

\* funkensturm() of config.go: one match function with AND, one action
funkensturm ==
    [Matches |-> <<[Op |-> AND, Func |-> "match"]>>, Actions |-> <<"send">>]

\* funkensturm main, line 171: the default of -rserver, "127.0.0.1:53",
\* names one remote server
Remotes == 1

\* funkensturm main, lines 179-187: qr has one connection for every remote
\* server, f is the configuration
FStart ==
    /\ f \in Configs
    /\ qr = Remotes

FInit ==
    /\ fpc = [t \in FTasks |-> "idle"]
    /\ fmsg = [t \in FTasks |-> NilPkt]
    /\ fres = [t \in FTasks |-> [calls |-> <<>>, wrote |-> <<>>, err |-> None]]

\* Match.Func(m, d) of the i-th match: the packet returned and the boolean
MatchFunc(fn, i, m, d) ==
    CASE fn = "match" -> [pkt |-> m, ok |-> TRUE]
      [] fn = "markT" -> [pkt |-> Mark(m, <<"M", i, d>>), ok |-> TRUE]
      [] fn = "markF" -> [pkt |-> Mark(m, <<"M", i, d>>), ok |-> FALSE]

\* the switch on m.Op of doFunkensturm with the two cases exchanged
ChainSwapped(op, ok, ok1) ==
    CASE op = AND -> ok \/ ok1
      [] op = OR -> ok /\ ok1
      [] OTHER -> ok

\* doFunkensturm, lines 96-101: the switch on m.Op
Chain(op, ok, ok1) ==
    CASE op = AND -> ok /\ ok1
      [] op = OR -> ok \/ ok1
      [] OTHER -> ok

\* the record of one call of a match function: the packet and direction it
\* was given, the packet and the boolean it returned
MatchCall(i, d, m, r) ==
    [fn |-> "Match", i |-> i, d |-> d, m |-> m, ret |-> r.pkt, ok1 |-> r.ok]

\* the record of one call of an action: the packet and the match outcome it
\* was given, the packet it returned, and whether it returned at all
ActionCall(j, m, ok, ret, returned) ==
    [fn |-> "Action", i |-> j, m |-> m, ok |-> ok, ret |-> ret,
     returned |-> returned]

\* doFunkensturm, lines 92-102 (d = PktIN) and 123-126 (d = PktOUT): the loop
\* over f.Matches from the i-th match on; calls are the calls made so far
RECURSIVE MatchLoop(_, _, _, _, _, _)
MatchLoop(ms, i, pkt1, ok, d, calls) ==
    IF i > Len(ms) THEN [pkt |-> pkt1, ok |-> ok, calls |-> calls]
    ELSE LET r == MatchFunc(ms[i].Func, i, pkt1, d)
         IN  MatchLoop(ms, i + 1, r.pkt,
                       IF d = PktIN THEN Chain(ms[i].Op, ok, r.ok) ELSE ok, d,
                       Append(calls, MatchCall(i, d, pkt1, r)))

\* var in chan dns.Query: the channel is declared and never made, so it
\* stays nil, and no goroutine receives from it
in == "nil"

\* "in <- Query{...}" on channel ch blocks for ever
sendBlocks(ch) == ch = "nil"

\* the first action that is send and blocks, or 0: send sends on in once
\* for every connection of qr
RECURSIVE FirstSend(_, _)
FirstSend(as, j) ==
    IF j > Len(as) THEN 0
    ELSE IF as[j] = "send" /\ qr > 0 /\ sendBlocks(in) THEN j
    ELSE FirstSend(as, j + 1)

\* Action.Func(m, ok) of the j-th action, for the actions that return
ActionFunc(fn, j, m, ok) ==
    CASE fn = "answer" -> Mark(m, <<"A", j, ok>>)
      [] fn = "drop" -> NilPkt
      [] fn = "send" -> NilPkt

\* the loop over f.Actions keeping the packet of the first action
RECURSIVE ActionLoopFirst(_, _, _, _, _, _, _)
ActionLoopFirst(as, j, s, pkt1, ok, resultpkt, calls) ==
    IF j > Len(as) THEN [resultpkt |-> resultpkt, calls |-> calls]
    ELSE IF j = s
      THEN [resultpkt |-> resultpkt,
            calls |-> Append(calls, ActionCall(j, pkt1, ok, NilPkt, FALSE))]
    ELSE LET ret == ActionFunc(as[j], j, pkt1, ok)
         IN  ActionLoopFirst(as, j + 1, s, pkt1, ok,
                             IF j = 1 THEN ret ELSE resultpkt,
                             Append(calls, ActionCall(j, pkt1, ok, ret, TRUE)))

\* doFunkensturm, lines 110-113: resultpkt after the actions from j on; s is
\* the action that blocks, or 0
RECURSIVE ActionLoop(_, _, _, _, _, _, _)
ActionLoop(as, j, s, pkt1, ok, resultpkt, calls) ==
    IF j > Len(as) THEN [resultpkt |-> resultpkt, calls |-> calls]
    ELSE IF j = s
      THEN [resultpkt |-> resultpkt,
            calls |-> Append(calls, ActionCall(j, pkt1, ok, NilPkt, FALSE))]
    ELSE LET ret == ActionFunc(as[j], j, pkt1, ok)
         IN  ActionLoop(as, j + 1, s, pkt1, ok, ret,
                        Append(calls, ActionCall(j, pkt1, ok, ret, TRUE)))

\* doFunkensturm(pkt): the bytes and the error returned, the calls made,
\* and whether the call never returns (blocked in send)
doFunkensturm(pkt, packOk) ==
    IF pkt.Response = TRUE
      THEN [blocked |-> FALSE, out |-> NilPkt, calls |-> <<>>,
            err |-> "Response bit set, not replying"]
      ELSE
        LET in1 == MatchLoop(f.Matches, 1, pkt, TRUE, PktIN, <<>>)
            s == FirstSend(f.Actions, 1)
            act == ActionLoop(f.Actions, 1, s, in1.pkt, in1.ok, NilPkt,
                              in1.calls)
            out1 == MatchLoop(f.Matches, 1, act.resultpkt, TRUE, PktOUT,
                              act.calls)
        IN  IF s > 0
              THEN [blocked |-> TRUE, out |-> NilPkt, calls |-> act.calls,
                    err |-> None]
            ELSE IF out1.pkt.nil
              THEN [blocked |-> FALSE, out |-> NilPkt, calls |-> out1.calls,
                    err |-> None]
            ELSE IF ~packOk
              THEN [blocked |-> FALSE, out |-> NilPkt, calls |-> out1.calls,
                    err |-> "Packing packet failed"]
            ELSE [blocked |-> FALSE, out |-> out1.pkt, calls |-> out1.calls,
                  err |-> None]

\* dns.ListenAndServeUDP/TCP(addr, reply): the listener decoded a packet and
\* calls reply with it
fServe(t, resp) ==
    /\ Alive("funkensturm")
    /\ fpc[t] = "idle"
    /\ accepted < MaxInbound
    /\ accepted' = accepted + 1
    /\ fpc' = [fpc EXCEPT ![t] = "reply"]
    /\ fmsg' = [fmsg EXCEPT ![t] = Pkt(resp)]
    /\ fres' = [fres EXCEPT ![t] = [calls |-> <<>>, wrote |-> <<>>, err |-> None]]
    /\ UNCHANGED <<NotF, f, qr, mainpc, stopmsg>>

\* reply without the test of out against nil
replyNoNilCheck(t, packOk) ==
    /\ Alive("funkensturm")
    /\ fpc[t] = "reply"
    /\ LET r == doFunkensturm(fmsg[t], packOk)
       IN  /\ fpc' = [fpc EXCEPT ![t] = IF r.blocked THEN "send" ELSE "idle"]
           /\ fres' = [fres EXCEPT ![t] =
                  [calls |-> r.calls,
                   wrote |-> IF r.err = None /\ ~r.blocked
                               THEN <<r.out>> ELSE <<>>,
                   err |-> r.err]]
    /\ UNCHANGED <<NotF, f, qr, fmsg, accepted, mainpc, stopmsg>>

\* reply: doFunkensturm, then the error is printed, or the bytes are written
\* to the client, or nothing is done; the goroutine stays in send when
\* doFunkensturm does not return
reply(t, packOk) ==
    /\ Alive("funkensturm")
    /\ fpc[t] = "reply"
    /\ LET r == doFunkensturm(fmsg[t], packOk)
       IN  /\ fpc' = [fpc EXCEPT ![t] = IF r.blocked THEN "send" ELSE "idle"]
           /\ fres' = [fres EXCEPT ![t] =
                  [calls |-> r.calls,
                   wrote |-> IF r.err = None /\ ~r.blocked /\ ~r.out.nil
                               THEN <<r.out>> ELSE <<>>,
                   err |-> r.err]]
    /\ UNCHANGED <<NotF, f, qr, fmsg, accepted, mainpc, stopmsg>>

\* funkensturm main returned: the process ends and its goroutines with it
fexit(t0) ==
    /\ mainpc' = "closed"
    /\ fpc' = [t \in FTasks |-> IF t = t0 THEN "returned" ELSE "exited"]
    /\ UNCHANGED <<NotF, f, qr, fmsg, fres, accepted>>

\* funkensturm main, lines 201-203 and 209
fmainError(t) ==
    /\ stopmsg' = "Error received, stopping"
    /\ fexit(t)

\* udp and tcp: the serve call returned and its error is sent on the
\* unbuffered channel e, where main, waiting in its select, receives it
serveReturn(t) ==
    /\ Alive("funkensturm")
    /\ fpc[t] = "idle"
    /\ fmainError(t)

\* funkensturm main, lines 204-206 and 209
fmainSignal ==
    /\ Alive("funkensturm")
    /\ stopmsg' = "Signal received, stopping"
    /\ fexit(None)

FNext ==
    \/ \E t \in FTasks, resp \in BOOLEAN : fServe(t, resp)
    \/ \E t \in FTasks, packOk \in BOOLEAN : reply(t, packOk)
    \/ \E t \in FTasks : serveReturn(t)
    \/ fmainSignal


\* ------------------------------------------- the handler of server_test.go

\* transaction ids of the messages handed to the test handler
Ids == {7, 65535}

\* createpkg(id, tcp)
createpkg(id, tcp) ==
    [Id |-> id, Authoritative |-> TRUE, AuthenticatedData |-> FALSE,
     RecursionAvailable |-> TRUE, Response |-> TRUE, Opcode |-> "OpcodeQuery",
     Rcode |-> "RcodeSuccess",
     Question |-> <<[Name |-> "miek.nl.", Qtype |-> "TypeTXT",
                     Qclass |-> "ClassINET"]>>,
     Answer |-> <<[Name |-> "miek.nl.", Rrtype |-> "TypeTXT",
                   Class |-> "ClassINET", Ttl |-> 3600,
                   Txt |-> IF tcp THEN "Dit is iets anders TCP"
                                  ELSE "Dit is iets anders UDP"]>>]

NoIn == [Id |-> 0, Response |-> FALSE]

TInit ==
    /\ tpc = "idle"
    /\ tin = NoIn
    /\ tout = <<>>

\* the server calls handle(c, in)
testServe(id, resp) ==
    /\ prog = "test"
    /\ tpc = "idle"
    /\ accepted < MaxInbound
    /\ accepted' = accepted + 1
    /\ tpc' = "handle"
    /\ tin' = [Id |-> id, Response |-> resp]
    /\ UNCHANGED <<NotT, tout, mainpc, stopmsg>>

\* handle of server_test.go: nothing for a response, else the packet of
\* createpkg is written to the connection
testHandle ==
    /\ prog = "test"
    /\ tpc = "handle"
    /\ IF tin.Response = TRUE
         THEN tout' = tout
         ELSE tout' = Append(tout, createpkg(tin.Id, TRUE))
    /\ tpc' = "idle"
    /\ UNCHANGED <<NotT, tin, accepted, mainpc, stopmsg>>

TNext ==
    \/ \E id \in Ids, resp \in BOOLEAN : testServe(id, resp)
    \/ testHandle

\* ------------------------------------------------- resolver: FromFile

\* Go strings are sequences of characters here, so that len and slices are
\* computed as the code computes them.
kwNameserver == <<"n", "a", "m", "e", "s", "e", "r", "v", "e", "r">>
kwDomain == <<"d", "o", "m", "a", "i", "n">>
kwSearch == <<"s", "e", "a", "r", "c", "h">>
kwOptions == <<"o", "p", "t", "i", "o", "n", "s">>
pNdots == <<"n", "d", "o", "t", "s", ":">>
pTimeout == <<"t", "i", "m", "e", "o", "u", "t", ":">>
pAttempts == <<"a", "t", "t", "e", "m", "p", "t", "s", ":">>
sRotate == <<"r", "o", "t", "a", "t", "e">>

\* arguments and tokens of the files read
ip4 == <<"1", ".", "2", ".", "3", ".", "4">>
ip6 == <<":", ":", "1">>
host == <<"n", "s", "1">>
dom1 == <<"a", ".", "b">>
dom2 == <<"c">>
tDebug == <<"d", "e", "b", "u", "g">>
tInet6 == <<"i", "n", "e", "t", "6">>
tSingle == <<"s", "i", "n", "g", "l", "e", "-", "r", "e", "q">>
tEight == <<"a", "t", "t", "e", "m", "p", "t", "s">>

\* the lines of a file, each as getFields returns it
Lines ==
    { <<>>,
      <<kwNameserver, ip4>>, <<kwNameserver, ip6>>, <<kwNameserver, host>>,
      <<kwNameserver>>,
      <<kwDomain, dom1>>, <<kwDomain>>,
      <<kwSearch, dom1, dom2>>, <<kwSearch>>,
      <<kwOptions, pNdots \o <<"3">>, sRotate>>,
      <<kwOptions, pNdots \o <<"0">>>>,
      <<kwOptions, pTimeout \o <<"9">>, pAttempts \o <<"4">>>>,
      <<kwOptions, pTimeout, pAttempts \o <<"0">>>>,
      <<kwOptions, tDebug, tSingle>>,
      <<kwOptions, tInet6, tEight>>,
      <<dom1, dom2>> }

\* a Servers slice with room for one more
ServersCapFour == 3 + 1

\* make([]string, 3): the capacity of Servers
ServersCap == 3

DigitChars == <<"0", "1", "2", "3", "4", "5", "6", "7", "8", "9">>
IsDigit(c) == \E k \in 1..10 : DigitChars[k] = c
DigitVal(c) == (CHOOSE k \in 1..10 : DigitChars[k] = c) - 1

\* dtoi(s, i0): the decimal number starting at s[i0] (i0 counts from 0);
\* 0 when there is no digit or the number reaches big
big == 16777215

RECURSIVE dtoiLoop(_, _, _)
dtoiLoop(s, i, n) ==
    IF i < Len(s) /\ IsDigit(s[i + 1])
      THEN LET n1 == n * 10 + DigitVal(s[i + 1])
           IN  IF n1 >= big THEN [n |-> 0, i |-> i, ok |-> FALSE]
               ELSE dtoiLoop(s, i + 1, n1)
      ELSE [n |-> n, i |-> i, ok |-> TRUE]

dtoi(s, i0) ==
    LET d == dtoiLoop(s, i0, 0)
    IN  IF d.ok /\ d.i = i0 THEN [n |-> 0, i |-> i0, ok |-> FALSE] ELSE d

\* len(net.ParseIP(name)): 16 for the text of an IPv4 or IPv6 address
\* (ParseIP returns the 16-byte form of both), 0 (nil) for anything else
RECURSIVE Count(_, _)
Count(s, c) ==
    IF s = <<>> THEN 0
    ELSE (IF Head(s) = c THEN 1 ELSE 0) + Count(Tail(s), c)

ParseIPLen(name) ==
    LET chars == {name[k] : k \in 1..Len(name)}
    IN  IF /\ Len(name) > 0
           /\ \A c \in chars : IsDigit(c) \/ c = "."
           /\ Count(name, ".") = 3
           /\ IsDigit(name[1]) /\ IsDigit(name[Len(name)])
          THEN 16
        ELSE IF /\ \A c \in chars : IsDigit(c) \/ c = ":"
                /\ Count(name, ":") >= 2
          THEN 16
        ELSE 0

\* s[0:k], which panics when k > len(s)
InRange(s, k) == k <= Len(s)
Slice(s, k) == SubSeq(s, 1, k)

\* the option value taken as it was parsed
AsParsed(n) == n

\* "if n < 1 { n = 1 }" of lines 71-73, 77-79 and 83-85
AtLeastOne(n) == IF n < 1 THEN 1 ELSE n

\* FromFile, lines 67-89: one token of an options line.  The result is the
\* resolver and whether the slice expression of line 81 panicked.
optionToken(r, s) ==
    IF Len(s) >= 6 /\ Slice(s, 6) = pNdots
      THEN [r |-> [r EXCEPT !.Ndots = AtLeastOne(dtoi(s, 6).n)],
            panic |-> FALSE]
    ELSE IF Len(s) >= 8 /\ Slice(s, 8) = pTimeout
      THEN [r |-> [r EXCEPT !.Timeout = AtLeastOne(dtoi(s, 8).n)],
            panic |-> FALSE]
    ELSE IF Len(s) >= 8 /\ ~InRange(s, 9)
      THEN [r |-> r, panic |-> TRUE]
    ELSE IF Len(s) >= 8 /\ Slice(s, 9) = pAttempts
      THEN [r |-> [r EXCEPT !.Attempts = AtLeastOne(dtoi(s, 9).n)],
            panic |-> FALSE]
    ELSE IF s = sRotate
      THEN [r |-> [r EXCEPT !.Rotate = TRUE], panic |-> FALSE]
    ELSE [r |-> r, panic |-> FALSE]

\* FromFile, line 66: the loop over the tokens of an options line, from
\* f[i] on (i counts from 0)
RECURSIVE optionsLoop(_, _, _)
optionsLoop(r, fl, i) ==
    IF i >= Len(fl) THEN [r |-> r, panic |-> FALSE]
    ELSE LET o == optionToken(r, fl[i + 1])
         IN  IF o.panic THEN o ELSE optionsLoop(o.r, fl, i + 1)

\* FromFile, lines 32-49: a nameserver line
nameserverLine(r, fl) ==
    LET a == r.Servers
        n == Len(a)
    IN  IF Len(fl) > 1 /\ n < ServersCap
          THEN LET name == fl[2]
               IN  CASE ParseIPLen(name) = 16 ->
                          [r EXCEPT !.Servers =
                               Append(a, <<"[">> \o name \o <<"]">>)]
                     [] ParseIPLen(name) = 4 ->
                          [r EXCEPT !.Servers = Append(a, name)]
                     [] OTHER -> r
          ELSE r

\* FromFile, lines 27-91: the body of the loop for one line
fileLine(r, fl) ==
    IF Len(fl) < 1 THEN [r |-> r, panic |-> FALSE]
    ELSE CASE fl[1] = kwNameserver ->
                [r |-> nameserverLine(r, fl), panic |-> FALSE]
           [] fl[1] = kwDomain ->
                [r |-> [r EXCEPT !.Search =
                            IF Len(fl) > 1 THEN <<fl[2]>> ELSE <<>>],
                 panic |-> FALSE]
           [] fl[1] = kwSearch ->
                [r |-> [r EXCEPT !.Search = Tail(fl)], panic |-> FALSE]
           [] fl[1] = kwOptions -> optionsLoop(r, fl, 1)
           [] OTHER -> [r |-> r, panic |-> FALSE]

\* a Resolver never used, and one that holds an earlier configuration
Resolvers ==
    { [Servers |-> <<>>, Search |-> <<>>, Ndots |-> 0, Timeout |-> 0,
       Attempts |-> 0, Rotate |-> FALSE],
      [Servers |-> <<host>>, Search |-> <<dom2>>, Ndots |-> 4, Timeout |-> 30,
       Attempts |-> 5, Rotate |-> TRUE] }

RInit ==
    /\ rpc = "call"
    /\ conf = <<>>

\* FromFile, lines 16-25 without the reset of the options
openNoDefaults(ok) ==
    /\ prog = "resolver"
    /\ rpc = "call"
    /\ IF ok
         THEN /\ res' = [res EXCEPT !.Servers = <<>>, !.Search = <<>>]
              /\ rpc' = "loop"
         ELSE /\ res' = res
              /\ rpc' = "error"
    /\ UNCHANGED <<NotR, conf, accepted, mainpc, stopmsg>>

\* FromFile, lines 16-25 without the reset of Search
openKeepSearch(ok) ==
    /\ prog = "resolver"
    /\ rpc = "call"
    /\ IF ok
         THEN /\ res' = [Servers |-> <<>>, Search |-> res.Search, Ndots |-> 1,
                         Timeout |-> 5, Attempts |-> 2, Rotate |-> FALSE]
              /\ rpc' = "loop"
         ELSE /\ res' = res
              /\ rpc' = "error"
    /\ UNCHANGED <<NotR, conf, accepted, mainpc, stopmsg>>

\* FromFile, lines 16-25: the file is opened, or the error is returned; the
\* fields of the resolver are reset
open(ok) ==
    /\ prog = "resolver"
    /\ rpc = "call"
    /\ IF ok
         THEN /\ res' = [Servers |-> <<>>, Search |-> <<>>, Ndots |-> 1,
                         Timeout |-> 5, Attempts |-> 2, Rotate |-> FALSE]
              /\ rpc' = "loop"
         ELSE /\ res' = res
              /\ rpc' = "error"
    /\ UNCHANGED <<NotR, conf, accepted, mainpc, stopmsg>>

\* FromFile, lines 26-92: the next line of the file is read and handled
readLine(fl) ==
    /\ prog = "resolver"
    /\ rpc = "loop"
    /\ Len(conf) < MaxLines
    /\ conf' = Append(conf, fl)
    /\ LET o == fileLine(res, fl)
       IN  /\ res' = o.r
           /\ rpc' = IF o.panic THEN "panic" ELSE "loop"
    /\ UNCHANGED <<NotR, accepted, mainpc, stopmsg>>

\* FromFile, lines 93-94: the end of the file
close ==
    /\ prog = "resolver"
    /\ rpc = "loop"
    /\ rpc' = "done"
    /\ UNCHANGED <<NotR, res, conf, accepted, mainpc, stopmsg>>

RNext ==
    \/ \E ok \in BOOLEAN : open(ok)
    \/ \E fl \in Lines : readLine(fl)
    \/ close

\* ------------------------------------------------------------ the model

MainInit ==
    /\ accepted = 0
    /\ mainpc = "forever"
    /\ stopmsg = None

Init ==
    /\ prog \in Programs
    /\ MainInit
    /\ XInit
    /\ FInit
    /\ IF prog = "funkensturm" THEN FStart ELSE f = funkensturm /\ qr = 1
    /\ TInit
    /\ RInit
    /\ IF prog = "resolver" THEN res \in Resolvers
                            ELSE res = CHOOSE r \in Resolvers : r.Ndots = 0

Next == XNext \/ FNext \/ TNext \/ RNext

\* every program
Spec == Init /\ [][Next]_vars

\* xfrprx alone, funkensturm alone, FromFile alone
InitX == prog = "xfrprx" /\ Init
InitF == prog = "funkensturm" /\ Init
InitR == prog = "resolver" /\ Init

XSpec == InitX /\ [][XNext]_vars
FSpec == InitF /\ [][FNext]_vars
RSpec == InitR /\ [][RNext]_vars

\* the three programs that serve DNS messages with a handler
InitH == prog \in {"xfrprx", "funkensturm", "test"} /\ Init
HNext == XNext \/ FNext \/ TNext
HSpec == InitH /\ [][HNext]_vars

\* ------------------------------------------------------------ properties

\* the errors handleNotify and handleXfrOut return and handle prints
Errors == {"connect", "drop", "overflow", "verify", "xfrout"}

\* C1: while the process runs, a handler called with a message whose
\* response bit is set returns at once: xfrprx handle calls neither handleNotify nor handleXfrOut and
\* leaves the zone store and every transfer alone, funkensturm reply calls
\* no match or action function and writes nothing, and the test handler
\* writes nothing.
C1_ReflectionGuard ==
    [][ /\ \A t \in Listeners :
             ( /\ pc[t] = "handle" /\ msg[t].Response /\ pc'[t] # "handle"
               /\ mainpc' = mainpc )
               => /\ pc'[t] = "idle"
                  /\ Zone' = Zone
                  /\ verified' = verified
                  /\ xfer' = xfer
                  /\ result' = result
        /\ \A t \in FTasks :
             ( /\ fpc[t] = "reply" /\ fmsg[t].Response /\ fpc'[t] # "reply"
               /\ mainpc' = mainpc )
               => /\ fpc'[t] = "idle"
                  /\ fres'[t].calls = <<>>
                  /\ fres'[t].wrote = <<>>
        /\ (tpc = "handle" /\ tin.Response /\ tpc' # "handle")
               => tout' = tout ]_vars

\* a listener of xfrprx has dropped a response and the zone store is as it
\* was at the start
C1_Witness ==
    /\ prog = "xfrprx"
    /\ \E t \in Listeners : pc[t] = "idle" /\ msg[t].Response
    /\ Zone = ZoneInit

\* C2: a handler whose transfer was verified and committed returns with the
\* zone store holding the transferred records and marked correct.
C2_CommittedStaysCorrect ==
    [][ \A t \in Listeners :
          (pc[t] = "tail" /\ result[t] = "committed" /\ pc'[t] = "idle")
            => /\ Zone'.correct = TRUE
               /\ Zone'.name = ZoneName
               /\ Zone'.size = Zone'.rrs.n ]_vars

\* C3: no step of a handler one of whose calls failed, the failing step
\* included, changes a field of the zone store, and the failure is printed.
C3_FailureLeavesZone ==
    [][ \A t \in Listeners :
          ( /\ pc'[t] # pc[t]
            /\ pc[t] \in {"notify", "streaming", "verifying", "xfrout", "tail"}
            /\ (result[t] \in Errors \/ result'[t] \in Errors) )
            => Zone' = Zone ]_vars

C5_TransfersSerialized ==
    Cardinality({t \in Listeners : xfer[t] # NoXfer}) <= 1

\* a NOTIFY with a newer serial came back from handleNotify without a
\* transfer and without an error while another handler runs a transfer
C5_Witness ==
    \E t, u \in Listeners :
        /\ t # u
        /\ pc[t] \in {"streaming", "verifying"}
        /\ pc[u] = "xfrout"
        /\ msg[u].kind = "NOTIFY"
        /\ msg[u].serial > Zone.rrs.serial
        /\ result[u] = None

\* C6: only the commit of a verified transfer changes the zone store.
C6_SingleWriter ==
    [][ Zone' # Zone
          => \E t \in Listeners :
                 pc[t] = "verifying" /\ result'[t] = "committed" ]_vars

\* a step of goroutine t of funkensturm
FStep(t) ==
    \/ \E resp \in BOOLEAN : fServe(t, resp)
    \/ \E packOk \in BOOLEAN : reply(t, packOk)
    \/ serveReturn(t)

\* C7: while the process runs, a handler that handed its query to the
\* channel of outbound queries goes on (it returns and its listener takes
\* the next message).
C7_SendReturns ==
    \A t \in FTasks :
        (mainpc = "forever" /\ fpc[t] = "send") => ENABLED FStep(t)

\* C8: main is past its loop only after it printed one of the two stop
\* messages, and the error message only after the serve call of a
\* goroutine returned and its error was received.
C8_LoopEndsOnErrorOrSignal ==
    mainpc = "closed"
      => /\ stopmsg \in {"Error received, stopping", "Signal received, stopping"}
         /\ stopmsg = "Error received, stopping"
              => \/ \E t \in Tasks : pc[t] = "returned"
                 \/ \E t \in FTasks : fpc[t] = "returned"

\* a handler printed an error for its message, later a serve call
\* returned, and only that ended the loop
C8_Witness ==
    /\ mainpc = "closed"
    /\ stopmsg = "Error received, stopping"
    /\ \E t \in Listeners : result[t] \in Errors
    /\ \E t \in Tasks : pc[t] = "returned"

\* C9: the record count of the zone and of every scratch buffer stays
\* within 0..10000, and a transfer reported as overflowing was aborted.
C9_SizeWithinCapacity ==
    /\ Zone.size >= 0
    /\ Zone.size <= 10000
    /\ Zone.size = Zone.rrs.n
    /\ \A t \in Listeners :
         /\ xfer[t].n <= 10000
         /\ result[t] = "overflow" => xfer[t] = NoXfer

\* a transfer was aborted for overflow and the zone store is untouched
C9_Witness ==
    \E t \in Listeners :
        /\ result[t] = "overflow"
        /\ pc[t] = "xfrout"
        /\ Zone = ZoneInit

\* the file read so far has no options line
NoOptions(c) == \A k \in 1..Len(c) : c[k] = <<>> \/ c[k][1] # kwOptions

\* C10: FromFile returned nil for a file without an options line: the
\* options have their defaults.
C10_Defaults ==
    (rpc = "done" /\ NoOptions(conf))
      => /\ res.Ndots = 1
         /\ res.Timeout = 5
         /\ res.Attempts = 2
         /\ res.Rotate = FALSE

C10_Witness ==
    /\ rpc = "done"
    /\ NoOptions(conf)
    /\ Len(conf) = MaxLines
    /\ res.Servers # <<>>
    /\ res.Search # <<>>

\* ---- the funkensturm pipeline, read off the calls a handler made ----

InMatchCall(c) == c.fn = "Match" /\ c.d = PktIN
OutMatchCall(c) == c.fn = "Match" /\ c.d = PktOUT
IsActionCall(c) == c.fn = "Action"

\* handler t took a query without the response bit and is past the pipeline:
\* it returned, or it is held in an action
Processed(t) ==
    /\ fpc[t] \in {"idle", "send"}
    /\ ~fmsg[t].nil
    /\ ~fmsg[t].Response

\* true Op[1] r[1] Op[2] r[2] ... Op[n] r[n], from the left
RECURSIVE FoldOutcome(_, _, _)
FoldOutcome(ms, r, n) ==
    IF n = 0 THEN TRUE
    ELSE IF ms[n].Op = AND THEN FoldOutcome(ms, r, n - 1) /\ r[n].ok1
    ELSE FoldOutcome(ms, r, n - 1) \/ r[n].ok1

\* C11: the match outcome every action is called with is the left fold of
\* the booleans the match functions returned on the IN pass under their
\* operators; with AND operators only it is true iff every one returned
\* true.
C11_MatchOutcomeIsFold ==
    \A t \in FTasks :
        LET calls == fres[t].calls
            r == SelectSeq(calls, InMatchCall)
        IN  \A k \in 1..Len(calls) :
                IsActionCall(calls[k])
                  => /\ Len(r) = Len(f.Matches)
                     /\ calls[k].ok = FoldOutcome(f.Matches, r, Len(r))
                     /\ (\A i \in 1..Len(r) : f.Matches[i].Op = AND)
                          => (calls[k].ok <=> \A i \in 1..Len(r) : r[i].ok1)

\* an action was handed true although the first match function had
\* returned false: a later OR took a true
C11_Witness ==
    \E t \in FTasks :
        LET calls == fres[t].calls
            r == SelectSeq(calls, InMatchCall)
        IN  /\ Len(r) = 2
            /\ ~r[1].ok1
            /\ r[2].ok1
            /\ f.Matches[2].Op = OR
            /\ \E k \in 1..Len(calls) : IsActionCall(calls[k]) /\ calls[k].ok

\* the calls of a whole pipeline for the query q, in order: the IN pass, the
\* actions, the OUT pass, each match function fed by the one before it
FullPipeline(calls, q) ==
    LET M == Len(f.Matches)
        A == Len(f.Actions)
    IN  /\ Len(calls) = M + A + M
        /\ \A i \in 1..M :
              /\ InMatchCall(calls[i])
              /\ calls[i].i = i
              /\ calls[i].m = IF i = 1 THEN q ELSE calls[i - 1].ret
        /\ \A j \in 1..A :
              /\ IsActionCall(calls[M + j])
              /\ calls[M + j].i = j
              /\ calls[M + j].returned
        /\ \A i \in 1..M :
              /\ OutMatchCall(calls[M + A + i])
              /\ calls[M + A + i].i = i
              /\ calls[M + A + i].m =
                   IF i > 1 THEN calls[M + A + i - 1].ret
                   ELSE IF A > 0 THEN calls[M + A].ret ELSE NilPkt

\* C12: for every query without the response bit the handler makes the
\* calls of the whole pipeline: every match function once with IN in slice
\* order, each on the packet the one before returned, then every action in
\* slice order, then every match function once with OUT in slice order.
C12_PipelineOrder ==
    \A t \in FTasks : Processed(t) => FullPipeline(fres[t].calls, fmsg[t])

\* the same for the handlers that returned from the pipeline
C12_PipelineOrderReturned ==
    \A t \in FTasks :
        (Processed(t) /\ fpc[t] = "idle")
          => FullPipeline(fres[t].calls, fmsg[t])

\* C13: every action is called with the packet the IN pass produced and
\* with the same match outcome, and the OUT pass starts from the packet the
\* last action returned, which is the one packet that can be written.
C13_LastActionWins ==
    \A t \in FTasks :
        LET calls == fres[t].calls
            ins == SelectSeq(calls, InMatchCall)
            acts == SelectSeq(calls, IsActionCall)
            outs == SelectSeq(calls, OutMatchCall)
            inpkt == IF ins = <<>> THEN fmsg[t] ELSE ins[Len(ins)].ret
            last == IF acts = <<>> THEN NilPkt ELSE acts[Len(acts)].ret
        IN  /\ \A j \in 1..Len(acts) :
                  /\ acts[j].m = inpkt
                  /\ acts[j].ok = acts[1].ok
            /\ outs # <<>> => outs[1].m = last
            /\ (outs = <<>> /\ fres[t].wrote # <<>>) => fres[t].wrote[1] = last
            /\ Len(fres[t].wrote) <= 1

\* two actions returned different packets, and the OUT pass started from
\* the second
C13_Witness ==
    \E t \in FTasks :
        LET calls == fres[t].calls
            acts == SelectSeq(calls, IsActionCall)
            outs == SelectSeq(calls, OutMatchCall)
        IN  /\ Len(acts) = 2
            /\ ~acts[1].ret.nil
            /\ acts[2].ret # acts[1].ret
            /\ outs # <<>>
            /\ outs[1].m = acts[2].ret

\* the packet the pipeline of a returned handler ended with
FinalPkt(t) ==
    LET calls == fres[t].calls
    IN  IF calls = <<>> THEN NilPkt ELSE calls[Len(calls)].ret

\* C15: a handler that returned wrote to the client exactly when the
\* pipeline gave no error and a packet: nothing and an error for a message
\* with the response bit or a failed Pack, nothing and no error for a nil
\* packet after the OUT pass; no handler writes twice for one message.
C15_WriteIffBytes ==
    \A t \in FTasks :
        /\ Len(fres[t].wrote) <= 1
        /\ (fpc[t] = "idle" /\ ~fmsg[t].nil)
             => /\ fmsg[t].Response
                  => (fres[t].err # None /\ fres[t].wrote = <<>>)
                /\ fres[t].err # None => fres[t].wrote = <<>>
                /\ (~fmsg[t].Response /\ FinalPkt(t).nil)
                  => (fres[t].err = None /\ fres[t].wrote = <<>>)
                /\ (~fmsg[t].Response /\ ~FinalPkt(t).nil /\ fres[t].err = None)
                  => fres[t].wrote = <<FinalPkt(t)>>
                /\ fres[t].wrote # <<>>
                  => (fres[t].err = None /\ ~fres[t].wrote[1].nil)

\* one handler wrote its packet, the other returned a Pack failure and
\* wrote nothing
C15_Witness ==
    \E t, u \in FTasks :
        /\ fpc[t] = "idle"
        /\ Len(fres[t].wrote) = 1
        /\ fpc[u] = "idle"
        /\ fres[u].err = "Packing packet failed"
        /\ fres[u].wrote = <<>>

\* ---- the resolver configuration, read off the lines of the file ----

\* FromFile is past line 25 and has not faulted
Reading == rpc \in {"loop", "done"}

\* the arguments of the files that are the text of an IP address
IPArgs == {ip4, ip6}

IsServerLine(fl) ==
    Len(fl) > 1 /\ fl[1] = kwNameserver /\ fl[2] \in IPArgs

\* the entry Servers keeps for a nameserver line
ServerEntry(fl) == <<"[">> \o fl[2] \o <<"]">>

FirstN(q, n) == SubSeq(q, 1, IF Len(q) < n THEN Len(q) ELSE n)

\* C14: Servers holds at most three entries: those of the first three
\* nameserver lines whose argument is an IP address, in file order; other
\* nameserver lines change nothing.
C14_ServersBoundedOrdered ==
    Reading
      => LET ns == FirstN(SelectSeq(conf, IsServerLine), 3)
         IN  /\ Len(res.Servers) <= 3
             /\ res.Servers = [k \in 1..Len(ns) |-> ServerEntry(ns[k])]

\* a file of four nameserver lines with IP addresses was read to its end
C14_Witness ==
    /\ rpc = "done"
    /\ Len(conf) = 4
    /\ \A k \in 1..4 : IsServerLine(conf[k])
    /\ conf[3] # conf[4]
    /\ Len(res.Servers) = 3

IsSearchLine(fl) == Len(fl) > 0 /\ fl[1] \in {kwDomain, kwSearch}

\* the search path a domain or search line asks for
SearchOf(fl) ==
    IF fl[1] = kwDomain
      THEN (IF Len(fl) > 1 THEN <<fl[2]>> ELSE <<>>)
      ELSE SubSeq(fl, 2, Len(fl))

\* C16: Search is what the last domain or search line of the file asks
\* for: the one argument of a domain line, all the arguments of a search
\* line, nothing when the line has no argument; it is empty when the file
\* has no such line.
C16_SearchLastWins ==
    Reading
      => LET sl == SelectSeq(conf, IsSearchLine)
         IN  res.Search = IF sl = <<>> THEN <<>> ELSE SearchOf(sl[Len(sl)])

\* a search line with two arguments was followed by a domain line, which
\* won
C16_Witness ==
    /\ rpc = "done"
    /\ \E i, j \in 1..Len(conf) :
          /\ i < j
          /\ conf[i] = <<kwSearch, dom1, dom2>>
          /\ conf[j] = <<kwDomain, dom1>>
          /\ \A k \in (j + 1)..Len(conf) : ~IsSearchLine(conf[k])
    /\ res.Search = <<dom1>>

\* the tokens of all the options lines of a file, in file order
RECURSIVE OptionTokens(_)
OptionTokens(c) ==
    IF c = <<>> THEN <<>>
    ELSE (IF Len(Head(c)) > 0 /\ Head(c)[1] = kwOptions
            THEN Tail(Head(c)) ELSE <<>>) \o OptionTokens(Tail(c))

HasPrefix(s, p) == Len(s) >= Len(p) /\ SubSeq(s, 1, Len(p)) = p

\* the decimal value written after the prefix p of token s, 0 when there is
\* none, for the one-digit values of the files read
ValueAfter(s, p) ==
    IF Len(s) = Len(p) + 1 /\ IsDigit(s[Len(s)]) THEN DigitVal(s[Len(s)])
    ELSE 0

\* the value of the option with prefix p after the tokens ts: that of its
\* last occurrence, raised to 1, or the default dflt
OptionAfter(ts, p, dflt) ==
    LET occ == {k \in 1..Len(ts) : HasPrefix(ts[k], p)}
    IN  IF occ = {} THEN dflt
        ELSE LET k == CHOOSE x \in occ : \A y \in occ : y <= x
                 v == ValueAfter(ts[k], p)
             IN  IF v < 1 THEN 1 ELSE v

\* C17: after FromFile returned nil, Ndots, Timeout and Attempts are at
\* least 1 and are what the last occurrence of their option says, a value
\* below 1 counting as 1; Rotate is true iff a rotate option occurred.
C17_OptionsAtLeastOne ==
    rpc = "done"
      => LET ts == OptionTokens(conf)
         IN  /\ res.Ndots >= 1
             /\ res.Timeout >= 1
             /\ res.Attempts >= 1
             /\ res.Ndots = OptionAfter(ts, pNdots, 1)
             /\ res.Timeout = OptionAfter(ts, pTimeout, 5)
             /\ res.Attempts = OptionAfter(ts, pAttempts, 2)
             /\ res.Rotate = (\E k \in 1..Len(ts) : ts[k] = sRotate)

\* timeout:9 and attempts:4 were overridden by a timeout: without a value
\* and attempts:0, ndots:0 was read, and rotate came before other options
C17_Witness ==
    /\ rpc = "done"
    /\ \E i, j, k \in 1..Len(conf) :
          /\ i < j /\ j < k
          /\ conf[i] = <<kwOptions, pNdots \o <<"3">>, sRotate>>
          /\ conf[j] = <<kwOptions, pTimeout \o <<"9">>, pAttempts \o <<"4">>>>
          /\ conf[k] = <<kwOptions, pTimeout, pAttempts \o <<"0">>>>
    /\ \E i \in 1..Len(conf) : conf[i] = <<kwOptions, pNdots \o <<"0">>>>
    /\ res.Timeout = 1
    /\ res.Attempts = 1
    /\ res.Rotate

\* an options token FromFile has a case for
KnownOption(s) ==
    \/ s = sRotate
    \/ HasPrefix(s, pNdots)
    \/ HasPrefix(s, pTimeout)
    \/ HasPrefix(s, pAttempts)

\* C18: reading an options line none of whose tokens is rotate or starts
\* with ndots:, timeout: or attempts: changes no field of the resolver and
\* FromFile goes on to the next line, whatever the length of the tokens.
C18_UnknownOptionIgnored ==
    [][ ( /\ rpc = "loop"
          /\ Len(conf') = Len(conf) + 1
          /\ LET fl == conf'[Len(conf')]
             IN  /\ Len(fl) > 0
                 /\ fl[1] = kwOptions
                 /\ \A k \in 2..Len(fl) : ~KnownOption(fl[k]) )
          => (res' = res /\ rpc' = "loop") ]_vars

====
